---- MODULE Spec2Model ----
(***************************************************************************)
(* Model of room_temp (src/room_temp.c): one invocation of the program,    *)
(* from flag parsing through bus setup, the selected sensor driver         *)
(* (MCP9801, AHT10 or SHT30), to output and exit.  The bus transport       *)
(* (libi2c, open, ioctl) is the environment: every call returns one of the *)
(* values its interface allows, chosen nondeterministically.               *)
(***************************************************************************)
EXTENDS Integers, Sequences, FiniteSets, TLC

VARIABLES
    pc,            \* position of the single thread of control
    argv,          \* argv[1..] : the command-line arguments
    flags,         \* main: number of flags consumed so far
    chip_addr,     \* main: address that will be bound with I2C_SLAVE
    readsensorfn,  \* main: name of the driver function selected
    bare_fmt,      \* main: uint8_t bitmask, 1 = -b, 2 = -r
    res,           \* main: value returned by the driver
    temp_set,      \* TRUE once the driver stored through *temp
    humi_set,      \* TRUE once the driver stored through *humi
    temp,          \* integer the stored temperature is computed from
    humi,          \* integer the stored humidity is computed from
    mcp_res,       \* read_mcp9801: its local res
    wres,          \* last value returned by an i2c_smbus_write_* call
    exit_on_fail,  \* build option AHT10_CALIBRATE_EXIT_ON_FAIL is defined
    rd,            \* last value returned by i2c_smbus_read_byte
    retries,       \* busy_wait_limited: uint8_t retries
    max_retries,   \* busy_wait_limited: uint8_t parameter
    loop_delay_ms, \* busy_wait_limited: uint8_t parameter
    site,          \* call site of the running busy_wait_limited
    bw_ret,        \* value returned by the last busy_wait_limited
    nbusy,         \* busy probes seen by the running busy_wait_limited
    nprobe,        \* probes issued by the running busy_wait_limited
    nread,         \* value returned by the last block read
    data,          \* uint8_t data[6] of the running driver
    log,           \* bus transactions and suspends issued, in order
    errout,        \* diagnostics written to stderr, in order
    out,           \* lines written to stdout, in order
    exit_status    \* process exit status, -1 while running

vars == <<pc, argv, exit_on_fail, flags, chip_addr, readsensorfn, bare_fmt,
          res, temp_set, humi_set, temp, humi, mcp_res, wres, rd, retries,
          max_retries, loop_delay_ms, site, bw_ret, nbusy, nprobe, nread, data, log,
          errout, out, exit_status>>

----------------------------------------------------------------------------
(* Bounds of the model *)

MaxArgs == 2
MaxProbes == 300

(* Arguments: the recognised flags, an unsupported flag and a non-flag. *)
Args == {"-2", "-3", "-r", "-b", "-h", "-x", "file"}

(* Failure code of the transport: EREMOTEIO, what an unanswered address
   gives. *)
Errnos == {121}

(* Status bytes the device can answer a plain byte read with. *)
StatusBytes == {0, 8, 128, 136, 247}

(* Values of the MCP9801 configuration register. *)
CfgBytes == {0, 96, 255}

(* Values of the MCP9801 temperature register (as the word read returns). *)
TempWords == {0, 6400, 6528, 32793, 65535}

(* 6-byte block the device delivers to a block read of one invocation. *)
Blocks == { <<28, 102, 109, 92, 99, 93>> }

(* Parameter values of the stand-alone busy-wait specification. *)
RetryParams == {0, 1, 2, 20, 254, 255}

----------------------------------------------------------------------------
(* Program constants *)

MCP9801_ADDR == 79
MCP9801_TEMPER_REG == 0
MCP9801_CFG_REG == 1
MCP9801_CFG_VALUE == 96
MCP9801_CONV_TOUT_MS == 330
TOUT_10_MS == 10
TOUT_20_MS == 20
BUSY_WAIT_RETRIES == 20
AHTX0_ADDR_DEFAULT == 56
AHTX0_CMD_CALIBRATE == 225
AHTX0_CMD_TRIGGER == 172
AHTX0_STATUS_BUSY == 128
AHTX0_STATUS_CALIBRATED == 8
SHT30_ADDR_DEFAULT == 68
SHT30_CMD_MEAS_HREP_MSB == 36
SHT30_CMD_MEAS_HREP_LSB == 0

----------------------------------------------------------------------------
(* Integer helpers: fixed-width conversions and bit operations *)

RECURSIVE BitAnd(_, _)
BitAnd(x, y) ==
    IF x = 0 \/ y = 0 THEN 0
    ELSE ((x % 2) * (y % 2)) + 2 * BitAnd(x \div 2, y \div 2)

(* int -> int8_t, as the assignment "int8_t ret = ..." converts *)
ToInt8(x) == LET m == x % 256 IN IF m >= 128 THEN m - 256 ELSE m

(* int -> uint8_t *)
ToUint8(x) == x % 256


----------------------------------------------------------------------------
(* Initial state: main's locals as initialised at room_temp.c:267-271 *)

(* the default build leaves AHT10_CALIBRATE_EXIT_ON_FAIL undefined *)
AHT10_CALIBRATE_EXIT_ON_FAIL == FALSE

ArgLists == UNION { [1..n -> Args] : n \in 0..MaxArgs }

MainLocals ==
    /\ flags = 0
    /\ chip_addr = MCP9801_ADDR
    /\ readsensorfn = "read_mcp9801"
    /\ bare_fmt = 0
    /\ res = 0
    /\ temp_set = FALSE /\ humi_set = FALSE
    /\ temp = 0 /\ humi = 0
    /\ mcp_res = 0 /\ wres = 0
    /\ rd = 0 /\ retries = 0
    /\ bw_ret = 0 /\ nbusy = 0 /\ nprobe = 0
    /\ nread = 0
    /\ data = <<0, 0, 0, 0, 0, 0>>
    /\ log = <<>> /\ errout = <<>> /\ out = <<>>
    /\ exit_status = -1

Init ==
    /\ pc = "parse"
    /\ argv \in ArgLists
    /\ exit_on_fail = AHT10_CALIBRATE_EXIT_ON_FAIL
    /\ max_retries = BUSY_WAIT_RETRIES
    /\ loop_delay_ms = TOUT_10_MS
    /\ site = "none"
    /\ MainLocals

----------------------------------------------------------------------------
(* main: flag parsing, room_temp.c:273-300 *)

argc == Len(argv) + 1

IsFlag(a) == a # "file"

MoreFlags == 1 + flags < argc /\ IsFlag(argv[1 + flags])

(* help(): usage text on stderr, then exit(1); it never returns *)
help ==
    /\ errout' = Append(errout, "usage")
    /\ exit_status' = 1
    /\ pc' = "exited"

(* chip selected by one flag: -2 and -3 overwrite, the others keep it *)
FlagAddr(a, old) ==
    CASE a = "-2" -> AHTX0_ADDR_DEFAULT
      [] a = "-3" -> SHT30_ADDR_DEFAULT
      [] OTHER -> old

FlagDriver_first(a, old) ==
    CASE a = "-2" /\ old = "read_mcp9801" -> "read_aht10"
      [] a = "-3" /\ old = "read_mcp9801" -> "read_sht30"
      [] OTHER -> old

FlagDriver(a, old) ==
    CASE a = "-2" -> "read_aht10"
      [] a = "-3" -> "read_sht30"
      [] OTHER -> old

FlagBare(a, old) ==
    CASE a = "-r" -> BitAnd(old, 253) + 2
      [] a = "-b" -> BitAnd(old, 254) + 1
      [] OTHER -> old

ParseFlag ==
    /\ pc = "parse"
    /\ MoreFlags
    /\ LET a == argv[1 + flags] IN
         IF a \in {"-2", "-3", "-r", "-b"}
         THEN /\ chip_addr' = FlagAddr(a, chip_addr)
              /\ readsensorfn' = FlagDriver(a, readsensorfn)
              /\ bare_fmt' = FlagBare(a, bare_fmt)
              /\ flags' = flags + 1
              /\ UNCHANGED <<pc, errout, exit_status>>
         ELSE IF a = "-h"
         THEN /\ help
              /\ UNCHANGED <<chip_addr, readsensorfn, bare_fmt, flags>>
         ELSE /\ errout' = errout \o <<"Error: Unsupported option", "usage">>
              /\ exit_status' = 1
              /\ pc' = "exited"
              /\ UNCHANGED <<chip_addr, readsensorfn, bare_fmt, flags>>
    /\ UNCHANGED <<argv, exit_on_fail, res, temp_set, humi_set, temp, humi, mcp_res, wres, rd, retries,
                   max_retries, loop_delay_ms, site, bw_ret, nbusy, nprobe,
                   nread, data, log, out>>

(* main: open the bus and bind the chip address, room_temp.c:303-316 *)
OpenBus ==
    /\ pc = "parse"
    /\ ~MoreFlags
    /\ \E e \in {"ok", "EACCES", "ENOENT"} :
         /\ log' = Append(log, <<"main", "open", 0>>)
         /\ IF e = "ok"
            THEN /\ pc' = "bind"
                 /\ UNCHANGED <<errout, exit_status>>
            ELSE /\ errout' = errout \o
                        (<<"Error: Could not open file">> \o
                         (IF e = "EACCES" THEN <<"Run as root?">> ELSE <<>>))
                 /\ exit_status' = 1
                 /\ pc' = "exited"
    /\ UNCHANGED <<argv, exit_on_fail, flags, chip_addr, readsensorfn, bare_fmt, res,
                   temp_set, humi_set, temp, humi, mcp_res, wres, rd, retries, max_retries,
                   loop_delay_ms, site, bw_ret, nbusy, nprobe, nread, data,
                   out>>

BindAddr ==
    /\ pc = "bind"
    /\ \E ok \in BOOLEAN :
         /\ log' = Append(log, <<"main", "ioctl I2C_SLAVE", chip_addr>>)
         /\ IF ok
            THEN /\ pc' = "call"
                 /\ UNCHANGED <<errout, exit_status>>
            ELSE /\ errout' = Append(errout, "Error: Could not set address")
                 /\ exit_status' = 1
                 /\ pc' = "exited"
    /\ UNCHANGED <<argv, exit_on_fail, flags, chip_addr, readsensorfn, bare_fmt, res,
                   temp_set, humi_set, temp, humi, mcp_res, wres, rd, retries, max_retries,
                   loop_delay_ms, site, bw_ret, nbusy, nprobe, nread, data,
                   out>>

(* main: res = readsensorfn(file, &temp, &humi), room_temp.c:318 *)
DriverEntry(fn) ==
    CASE fn = "read_mcp9801" -> "mcp_cfg"
      [] fn = "read_aht10" -> "aht_calibrate"
      [] fn = "read_sht30" -> "sht_measure"

CallDriver ==
    /\ pc = "call"
    /\ pc' = DriverEntry(readsensorfn)
    /\ UNCHANGED <<argv, exit_on_fail, flags, chip_addr, readsensorfn, bare_fmt, res,
                   temp_set, humi_set, temp, humi, mcp_res, wres, rd, retries, max_retries,
                   loop_delay_ms, site, bw_ret, nbusy, nprobe, nread, data,
                   log, errout, out, exit_status>>


----------------------------------------------------------------------------
(* Values the transport calls can return *)

Failures == { -e : e \in Errnos }

WriteResults == {0} \cup Failures

ReadByteResults == StatusBytes \cup Failures

BlockResults == {0, 5, 6} \cup Failures

DriverFail_generic(msg) ==
    /\ errout' = Append(errout, "Error: sensor read failed")
    /\ res' = -1
    /\ pc' = "returned"

(* a driver's failing return: diagnostic on stderr, then return -1 *)
DriverFail(msg) ==
    /\ errout' = Append(errout, msg)
    /\ res' = -1
    /\ pc' = "returned"

----------------------------------------------------------------------------
(* read_mcp9801, room_temp.c:77-104 *)

Mcp9801Ret_both == 1 + 2

(* capability values the drivers return on success *)
Mcp9801Ret == 1
Aht10Ret == 3
Sht30Ret == 3

Mcp9801Decode_swapped(w) == 16 * (w \div 256) + (BitAnd(w, 255) \div 16)

Mcp9801Decode_signed(w) ==
    16 * BitAnd(w, 255) +
    (IF w \div 4096 >= 8 THEN (w \div 4096) - 16 ELSE w \div 4096)

(* (res&0xff)+(double)(res>>12)/16, in sixteenths of a degree *)
Mcp9801Decode(w) == 16 * BitAnd(w, 255) + (w \div 4096)

AfterCfgRead_always(r) == "mcp_fix"

(* if (MCP9801_CFG_VALUE != res) { write; usleep; } then the word read *)
AfterCfgRead(r) == IF MCP9801_CFG_VALUE # r THEN "mcp_fix" ELSE "mcp_temp"

McpCfgRead ==
    /\ pc = "mcp_cfg"
    /\ \E r \in CfgBytes \cup Failures :
         /\ mcp_res' = r
         /\ log' = Append(log, <<"read_mcp9801", "i2c_smbus_read_byte_data",
                                 MCP9801_CFG_REG>>)
         /\ IF r < 0
            THEN DriverFail("Error: Config reg read failed")
            ELSE /\ pc' = AfterCfgRead(r)
                 /\ UNCHANGED <<errout, res>>
    /\ UNCHANGED <<argv, exit_on_fail, flags, chip_addr, readsensorfn, bare_fmt, temp_set,
                   humi_set, temp, humi, wres, rd, retries, max_retries,
                   loop_delay_ms, site, bw_ret, nbusy, nprobe, nread, data,
                   out, exit_status>>

McpCfgFix ==
    /\ pc = "mcp_fix"
    /\ \E w \in WriteResults :
         /\ wres' = w
         /\ log' = log \o
              << <<"read_mcp9801", "i2c_smbus_write_byte_data",
                   MCP9801_CFG_REG>>,
                 <<"read_mcp9801", "usleep", MCP9801_CONV_TOUT_MS>> >>
    /\ pc' = "mcp_temp"
    /\ UNCHANGED <<argv, exit_on_fail, flags, chip_addr, readsensorfn, bare_fmt, res,
                   temp_set, humi_set, temp, humi, mcp_res, rd, retries,
                   max_retries, loop_delay_ms, site, bw_ret, nbusy, nprobe,
                   nread, data, errout, out, exit_status>>

McpTempRead ==
    /\ pc = "mcp_temp"
    /\ \E r \in TempWords \cup Failures :
         /\ mcp_res' = r
         /\ log' = Append(log, <<"read_mcp9801", "i2c_smbus_read_word_data",
                                 MCP9801_TEMPER_REG>>)
         /\ IF r < 0
            THEN DriverFail("Error: Temperature reg read failed")
            ELSE /\ pc' = "mcp_decode"
                 /\ UNCHANGED <<errout, res>>
    /\ UNCHANGED <<argv, exit_on_fail, flags, chip_addr,
                   readsensorfn, bare_fmt, temp_set, humi_set, temp, humi,
                   wres, rd, retries, max_retries, loop_delay_ms, site,
                   bw_ret, nbusy, nprobe, nread, data, out, exit_status>>

(* *temp = (res&0xff)+(double)(res>>12)/16; return 1; *)
McpDecode ==
    /\ pc = "mcp_decode"
    /\ temp' = Mcp9801Decode(mcp_res)
    /\ temp_set' = TRUE
    /\ res' = Mcp9801Ret
    /\ pc' = "returned"
    /\ UNCHANGED <<argv, exit_on_fail, flags, chip_addr,
                   readsensorfn, bare_fmt, humi_set, humi, mcp_res, wres, rd,
                   retries, max_retries, loop_delay_ms, site, bw_ret, nbusy,
                   nprobe, nread, data, log, errout, out, exit_status>>

----------------------------------------------------------------------------
(* getStatus and busy_wait_limited, room_temp.c:106-130 *)

getStatus_idle(r) == LET ret == ToInt8(r) IN IF ret < 0 THEN 0 ELSE ToUint8(ret)

(* the byte read is narrowed to int8_t; a negative value becomes 0xFF *)
getStatus(r) == LET ret == ToInt8(r) IN IF ret < 0 THEN 255 ELSE ToUint8(ret)

SiteDriver(s) == IF s \in {"cal", "trig"} THEN "read_aht10"
                 ELSE "busy_wait_limited"

(* the call busy_wait_limited(file, delay, max) from call site s *)
EnterBusyWait(s, delay, max) ==
    /\ pc' = "busy_wait"
    /\ site' = s
    /\ loop_delay_ms' = delay
    /\ max_retries' = max
    /\ retries' = 0
    /\ nbusy' = 0
    /\ nprobe' = 0

TimedOut_late(n, max) == n > max + 1

(* the loop's exit test after retries++ *)
TimedOut(n, max) == n > max

(* one evaluation of the loop condition, and the loop body if it is busy *)
BusyWaitProbe ==
    /\ pc = "busy_wait"
    /\ nprobe < MaxProbes
    /\ \E r \in ReadByteResults :
         /\ rd' = r
         /\ nprobe' = nprobe + 1
         /\ IF BitAnd(getStatus(r), AHTX0_STATUS_BUSY) # 0
            THEN /\ log' = log \o
                      << <<SiteDriver(site), "i2c_smbus_read_byte", 0>>,
                         <<SiteDriver(site), "usleep", loop_delay_ms>> >>
                 /\ retries' = ToUint8(retries + 1)
                 /\ nbusy' = nbusy + 1
                 /\ IF TimedOut(retries', max_retries)
                    THEN bw_ret' = -1 /\ pc' = "bw_return"
                    ELSE UNCHANGED <<bw_ret, pc>>
            ELSE /\ log' = Append(log, <<SiteDriver(site),
                                         "i2c_smbus_read_byte", 0>>)
                 /\ bw_ret' = 0
                 /\ pc' = "bw_return"
                 /\ UNCHANGED <<retries, nbusy>>
    /\ UNCHANGED <<argv, exit_on_fail, flags, chip_addr, readsensorfn, bare_fmt, res,
                   temp_set, humi_set, temp, humi, mcp_res, wres, max_retries,
                   loop_delay_ms, site, nread, data, errout, out,
                   exit_status>>


----------------------------------------------------------------------------
(* read_aht10, room_temp.c:132-197 (no soft reset; a failed calibrate command
   is fatal only in a build with AHT10_CALIBRATE_EXIT_ON_FAIL) *)

(* data[i] with the C index i = 0..5 *)
Byte(d, i) == d[i + 1]

(* uint8_t data[6] = {0} after a block read that delivered n bytes of blk *)
BlockData(blk, n) == [i \in 1..6 |-> IF i <= n THEN blk[i] ELSE 0]

(* h = data[1]; h <<= 8; h |= data[2]; h <<= 4; h |= data[3] >> 4 *)
Aht10Humi(d) == (Byte(d, 1) * 256 + Byte(d, 2)) * 16 + (Byte(d, 3) \div 16)

Aht10Temp_nibble(d) == ((Byte(d, 3) \div 16) * 256 + Byte(d, 4)) * 256 + Byte(d, 5)

(* tdata = data[3] & 0x0F; tdata <<= 8; tdata |= data[4]; ... data[5] *)
Aht10Temp(d) == (BitAnd(Byte(d, 3), 15) * 256 + Byte(d, 4)) * 256 + Byte(d, 5)

CalibrateSendFatal_always(w, strict) == w < 0

(* the calibrate write failed and the build makes that fatal *)
CalibrateSendFatal(w, strict) == w < 0 /\ strict

AhtCalibrate ==
    /\ pc = "aht_calibrate"
    /\ \E w \in WriteResults :
         /\ wres' = w
         /\ log' = Append(log, <<"read_aht10",
                                 "i2c_smbus_write_i2c_block_data",
                                 AHTX0_CMD_CALIBRATE>>)
         /\ IF CalibrateSendFatal(w, exit_on_fail)
            THEN /\ DriverFail("Error: send calibrate cmd failed")
                 /\ UNCHANGED <<site, loop_delay_ms, max_retries, retries,
                                nbusy, nprobe>>
            ELSE /\ EnterBusyWait("cal", TOUT_10_MS, BUSY_WAIT_RETRIES)
                 /\ UNCHANGED <<errout, res>>
    /\ UNCHANGED <<argv, exit_on_fail, flags, chip_addr, readsensorfn,
                   bare_fmt, temp_set, humi_set, temp, humi, mcp_res, rd,
                   bw_ret, nread, data, out, exit_status>>

AfterCalWait_retry(r) == IF r < 0 THEN "aht_calibrate" ELSE "aht_calcheck"

(* where read_aht10 goes when the calibrate busy-wait returned r *)
AfterCalWait(r) == IF r < 0 THEN "fail" ELSE "aht_calcheck"

AhtCalWaitReturn ==
    /\ pc = "bw_return"
    /\ site = "cal"
    /\ IF AfterCalWait(bw_ret) = "fail"
       THEN DriverFail("Error: calibrate busy timeout")
       ELSE /\ pc' = AfterCalWait(bw_ret)
            /\ UNCHANGED <<errout, res>>
    /\ UNCHANGED <<argv, exit_on_fail, flags, chip_addr, readsensorfn, bare_fmt, temp_set,
                   humi_set, temp, humi, mcp_res, wres, rd, retries,
                   max_retries, loop_delay_ms, site, bw_ret, nbusy, nprobe,
                   nread, data, log, out, exit_status>>

(* getStatus(file) & AHTX0_STATUS_CALIBRATED *)
CalibratedCheck(r) == BitAnd(getStatus(r), AHTX0_STATUS_CALIBRATED) # 0

AhtCalCheck ==
    /\ pc = "aht_calcheck"
    /\ \E r \in ReadByteResults :
         /\ rd' = r
         /\ log' = Append(log, <<"read_aht10", "i2c_smbus_read_byte", 0>>)
         /\ IF ~CalibratedCheck(r)
            THEN DriverFail("Error: calibration failed")
            ELSE /\ pc' = "aht_trigger"
                 /\ UNCHANGED <<errout, res>>
    /\ UNCHANGED <<argv, exit_on_fail, flags, chip_addr, readsensorfn, bare_fmt, temp_set,
                   humi_set, temp, humi, mcp_res, wres, retries, max_retries,
                   loop_delay_ms, site, bw_ret, nbusy, nprobe, nread, data,
                   out, exit_status>>

AhtTrigger ==
    /\ pc = "aht_trigger"
    /\ \E w \in WriteResults :
         /\ wres' = w
         /\ log' = Append(log, <<"read_aht10",
                                 "i2c_smbus_write_i2c_block_data",
                                 AHTX0_CMD_TRIGGER>>)
         /\ IF w < 0
            THEN /\ DriverFail("Error: send trigger cmd failed")
                 /\ UNCHANGED <<site, loop_delay_ms, max_retries, retries,
                                nbusy, nprobe>>
            ELSE /\ EnterBusyWait("trig", TOUT_20_MS, BUSY_WAIT_RETRIES)
                 /\ UNCHANGED <<errout, res>>
    /\ UNCHANGED <<argv, exit_on_fail, flags, chip_addr, readsensorfn, bare_fmt, temp_set,
                   humi_set, temp, humi, mcp_res, rd, bw_ret, nread, data,
                   out, exit_status>>

AfterTrigWait_ignore(r) == IF r < -1 THEN "fail" ELSE "aht_block"

(* where read_aht10 goes when the trigger busy-wait returned r *)
AfterTrigWait(r) == IF r < 0 THEN "fail" ELSE "aht_block"

AhtTrigWaitReturn ==
    /\ pc = "bw_return"
    /\ site = "trig"
    /\ IF AfterTrigWait(bw_ret) = "fail"
       THEN DriverFail("Error: trigger busy timeout")
       ELSE /\ pc' = AfterTrigWait(bw_ret)
            /\ UNCHANGED <<errout, res>>
    /\ UNCHANGED <<argv, exit_on_fail, flags, chip_addr, readsensorfn, bare_fmt, temp_set,
                   humi_set, temp, humi, mcp_res, wres, rd, retries,
                   max_retries, loop_delay_ms, site, bw_ret, nbusy, nprobe,
                   nread, data, log, out, exit_status>>

BlockReadFailed_never(n) == n < -200

(* the test made on the value the block read returned *)
BlockReadFailed(n) == n < 0

AhtBlockRead ==
    /\ pc = "aht_block"
    /\ \E n \in BlockResults, blk \in Blocks :
         /\ nread' = n
         /\ data' = BlockData(blk, n)
         /\ log' = Append(log, <<"read_aht10",
                                 "i2c_smbus_read_i2c_block_data", 0>>)
         /\ IF BlockReadFailed(n)
            THEN DriverFail("Error: reading values failed")
            ELSE /\ pc' = "aht_decode"
                 /\ UNCHANGED <<errout, res>>
    /\ UNCHANGED <<argv, exit_on_fail, flags, chip_addr, readsensorfn, bare_fmt, temp_set,
                   humi_set, temp, humi, mcp_res, wres, rd, retries,
                   max_retries, loop_delay_ms, site, bw_ret, nbusy, nprobe,
                   out, exit_status>>

AhtDecode ==
    /\ pc = "aht_decode"
    /\ humi' = Aht10Humi(data)
    /\ humi_set' = TRUE
    /\ temp' = Aht10Temp(data)
    /\ temp_set' = TRUE
    /\ res' = Aht10Ret
    /\ pc' = "returned"
    /\ UNCHANGED <<argv, exit_on_fail, flags, chip_addr, readsensorfn, bare_fmt, mcp_res,
                   wres, rd, retries, max_retries, loop_delay_ms, site,
                   bw_ret, nbusy, nprobe, nread, data, log, errout, out,
                   exit_status>>

----------------------------------------------------------------------------
(* read_sht30, room_temp.c:199-217 *)

(* data[0] * 256 + data[1] and data[3] * 256 + data[4] *)
Sht30Temp(d) == Byte(d, 0) * 256 + Byte(d, 1)

Sht30Humi_crc(d) == Byte(d, 2) * 256 + Byte(d, 3)

Sht30Humi(d) == Byte(d, 3) * 256 + Byte(d, 4)

ShtMeasure ==
    /\ pc = "sht_measure"
    /\ \E w \in WriteResults :
         /\ wres' = w
         /\ IF w < 0
            THEN /\ log' = Append(log, <<"read_sht30",
                                         "i2c_smbus_write_byte_data",
                                         SHT30_CMD_MEAS_HREP_MSB>>)
                 /\ DriverFail("Error: send measure cmd failed")
            ELSE /\ log' = log \o
                      << <<"read_sht30", "i2c_smbus_write_byte_data",
                           SHT30_CMD_MEAS_HREP_MSB>>,
                         <<"read_sht30", "usleep", TOUT_20_MS>> >>
                 /\ pc' = "sht_block"
                 /\ UNCHANGED <<errout, res>>
    /\ UNCHANGED <<argv, exit_on_fail, flags, chip_addr, readsensorfn, bare_fmt, temp_set,
                   humi_set, temp, humi, mcp_res, rd, retries, max_retries,
                   loop_delay_ms, site, bw_ret, nbusy, nprobe, nread, data,
                   out, exit_status>>

ShtBlockRead ==
    /\ pc = "sht_block"
    /\ \E n \in BlockResults, blk \in Blocks :
         /\ nread' = n
         /\ data' = BlockData(blk, n)
         /\ log' = Append(log, <<"read_sht30",
                                 "i2c_smbus_read_i2c_block_data", 0>>)
         /\ IF BlockReadFailed(n)
            THEN DriverFail("Error: reading values failed")
            ELSE /\ pc' = "sht_decode"
                 /\ UNCHANGED <<errout, res>>
    /\ UNCHANGED <<argv, exit_on_fail, flags, chip_addr, readsensorfn, bare_fmt, temp_set,
                   humi_set, temp, humi, mcp_res, wres, rd, retries,
                   max_retries, loop_delay_ms, site, bw_ret, nbusy, nprobe,
                   out, exit_status>>

ShtDecode ==
    /\ pc = "sht_decode"
    /\ temp' = Sht30Temp(data)
    /\ temp_set' = TRUE
    /\ humi' = Sht30Humi(data)
    /\ humi_set' = TRUE
    /\ res' = Sht30Ret
    /\ pc' = "returned"
    /\ UNCHANGED <<argv, exit_on_fail, flags, chip_addr, readsensorfn, bare_fmt, mcp_res,
                   wres, rd, retries, max_retries, loop_delay_ms, site,
                   bw_ret, nbusy, nprobe, nread, data, log, errout, out,
                   exit_status>>

----------------------------------------------------------------------------
(* main after the driver returned, room_temp.c:320-344 *)

ExitFor_setup(r) == IF r <= 0 THEN 1 ELSE 0

(* the exit status main chooses for the driver's return value *)
ExitFor(r) == IF r <= 0 THEN 2 ELSE 0

EffectiveBare_keep(r, b) == b

(* if (res < 3 && bare_fmt > 0) bare_fmt = res; *)
EffectiveBare(r, b) == IF r < 3 /\ b > 0 THEN ToUint8(r) ELSE b

(* the lines printed for return value r, format mask b and values t, h *)
OutputLines(r, b, t, h) ==
    (IF BitAnd(b, 1) # 0 THEN << <<"%.2f", t>> >> ELSE <<>>) \o
    (IF BitAnd(b, 2) # 0 THEN << <<"%.1f", h>> >> ELSE <<>>) \o
    (IF b = 0
     THEN (IF BitAnd(r, 1) # 0 THEN << <<"Temp=%.2f%s", t>> >> ELSE <<>>) \o
          (IF BitAnd(r, 2) # 0 THEN << <<"Humi=%.1f%%", h>> >> ELSE <<>>)
     ELSE <<>>)

MainReport ==
    /\ pc = "returned"
    /\ log' = Append(log, <<"main", "close", 0>>)
    /\ IF res <= 0
       THEN /\ errout' = Append(errout, "Sensor read failed - exiting...")
            /\ UNCHANGED <<bare_fmt, out>>
       ELSE /\ bare_fmt' = EffectiveBare(res, bare_fmt)
            /\ out' = out \o OutputLines(res, bare_fmt', temp, humi)
            /\ UNCHANGED errout
    /\ exit_status' = ExitFor(res)
    /\ pc' = "exited"
    /\ UNCHANGED <<argv, exit_on_fail, flags, chip_addr, readsensorfn, res, temp_set,
                   humi_set, temp, humi, mcp_res, wres, rd, retries,
                   max_retries, loop_delay_ms, site, bw_ret, nbusy, nprobe,
                   nread, data>>

----------------------------------------------------------------------------
(* The program *)

Next ==
    \/ ParseFlag
    \/ OpenBus
    \/ BindAddr
    \/ CallDriver
    \/ McpCfgRead
    \/ McpCfgFix
    \/ McpTempRead
    \/ McpDecode
    \/ AhtCalibrate
    \/ BusyWaitProbe
    \/ AhtCalWaitReturn
    \/ AhtCalCheck
    \/ AhtTrigger
    \/ AhtTrigWaitReturn
    \/ AhtBlockRead
    \/ AhtDecode
    \/ ShtMeasure
    \/ ShtBlockRead
    \/ ShtDecode
    \/ MainReport

Spec == Init /\ [][Next]_vars

(* read_aht10 on its own, in both builds of AHT10_CALIBRATE_EXIT_ON_FAIL *)
Aht10Init ==
    /\ pc = "aht_calibrate"
    /\ argv = <<"-2">>
    /\ exit_on_fail \in BOOLEAN
    /\ max_retries = BUSY_WAIT_RETRIES
    /\ loop_delay_ms = TOUT_10_MS
    /\ site = "none"
    /\ MainLocals

Aht10Next ==
    \/ AhtCalibrate
    \/ BusyWaitProbe
    \/ AhtCalWaitReturn
    \/ AhtCalCheck
    \/ AhtTrigger
    \/ AhtTrigWaitReturn
    \/ AhtBlockRead
    \/ AhtDecode

SpecAht10 == Aht10Init /\ [][Aht10Next]_vars

(* the decoders on their own, for every 16-bit word and for blocks over
   ByteVals *)
ByteVals == {0, 15, 16, 92, 240, 255}

Words == 0..(2^16 - 1)

DecodeInit ==
    /\ argv = <<>>
    /\ exit_on_fail = AHT10_CALIBRATE_EXIT_ON_FAIL
    /\ max_retries = BUSY_WAIT_RETRIES
    /\ loop_delay_ms = TOUT_10_MS
    /\ site = "none"
    /\ flags = 0
    /\ bare_fmt = 0
    /\ res = 0
    /\ temp_set = FALSE /\ humi_set = FALSE
    /\ temp = 0 /\ humi = 0
    /\ wres = 0
    /\ rd = 0 /\ retries = 0
    /\ bw_ret = 0 /\ nbusy = 0 /\ nprobe = 0
    /\ log = <<>> /\ errout = <<>> /\ out = <<>>
    /\ exit_status = -1
    /\ \/ /\ readsensorfn = "read_mcp9801"
          /\ chip_addr = MCP9801_ADDR
          /\ pc = "mcp_decode"
          /\ mcp_res \in Words
          /\ nread = 0
          /\ data = <<0, 0, 0, 0, 0, 0>>
       \/ /\ readsensorfn = "read_aht10"
          /\ chip_addr = AHTX0_ADDR_DEFAULT
          /\ pc = "aht_decode"
          /\ mcp_res = 0
          /\ nread = 6
          /\ data \in [1..6 -> ByteVals]
       \/ /\ readsensorfn = "read_sht30"
          /\ chip_addr = SHT30_ADDR_DEFAULT
          /\ pc = "sht_decode"
          /\ mcp_res = 0
          /\ nread = 6
          /\ data \in [1..6 -> ByteVals]

DecodeNext ==
    \/ McpDecode
    \/ AhtDecode
    \/ ShtDecode

SpecDecode == DecodeInit /\ [][DecodeNext]_vars

(* busy_wait_limited on its own, for every parameter value in RetryParams *)
PollInit ==
    /\ pc = "busy_wait"
    /\ argv = <<>>
    /\ exit_on_fail = AHT10_CALIBRATE_EXIT_ON_FAIL
    /\ max_retries \in RetryParams
    /\ loop_delay_ms \in {TOUT_10_MS, TOUT_20_MS}
    /\ site = "none"
    /\ MainLocals

PollNext == BusyWaitProbe

SpecPoll == PollInit /\ [][PollNext]_vars


----------------------------------------------------------------------------
(* Properties of busy_wait_limited, checked under SpecPoll *)

Returned == pc = "bw_return"

(* C1: after k busy probes followed by a not-busy probe the busy-wait returns
   0 (Ready) whenever k <= max_retries, at that first not-busy probe and
   without probing again; after max_retries + 1 busy probes in a row it has
   returned -1 (TimedOut).  This is to hold for every max_retries. *)
C1_BusyWaitBoundary ==
    /\ (Returned /\ nbusy <= max_retries) => bw_ret = 0
    /\ (nprobe > nbusy) => (Returned /\ bw_ret = 0 /\ nprobe = nbusy + 1)
    /\ (nbusy >= max_retries + 1) =>
           (Returned /\ bw_ret = -1 /\ nbusy = max_retries + 1)

(* C2: a probe whose bus read failed never makes the busy-wait return 0; the
   busy-wait counts it as busy and polls on, or returns -1. *)
C2_FailedProbeIsBusy ==
    (nprobe > 0 /\ rd < 0) =>
        /\ ~(Returned /\ bw_ret = 0)
        /\ nbusy = nprobe
        /\ (Returned => bw_ret = -1)

C2_Witness == nprobe > 1 /\ rd < 0 /\ pc = "busy_wait"

----------------------------------------------------------------------------
(* Properties of one invocation, checked under Spec *)

Drivers == {"read_mcp9801", "read_aht10", "read_sht30"}

(* the functions that issued the transactions logged so far, main excluded *)
DriversRun == { log[i][1] : i \in DOMAIN log } \ {"main"}

(* C3: when a driver has returned, *temp (resp. *humi) has been written if
   and only if it returned success with capability bit 1 (resp. 2) set; a
   failing driver returns -1 having written neither; read_mcp9801 reports 1,
   read_aht10 and read_sht30 report 3.  Nothing is written before the return. *)
C3_CapabilityMatchesValues ==
    /\ (pc = "returned") =>
         /\ temp_set <=> (res > 0 /\ BitAnd(res, 1) # 0)
         /\ humi_set <=> (res > 0 /\ BitAnd(res, 2) # 0)
         /\ (res <= 0) => (res = -1 /\ ~temp_set /\ ~humi_set)
         /\ (res > 0 /\ DriversRun = {"read_mcp9801"}) => res = 1
         /\ (res > 0 /\ DriversRun = {"read_aht10"}) => res = 3
         /\ (res > 0 /\ DriversRun = {"read_sht30"}) => res = 3
    /\ (temp_set \/ humi_set) => pc \in {"returned", "exited"}

C3_Witness ==
    /\ pc = "returned"
    /\ res = 1
    /\ temp_set /\ ~humi_set
    /\ DriversRun = {"read_mcp9801"}


(* some function other than main has issued a transaction: a driver ran *)
DriverCalled == DriversRun # {}

(* C4: the process exits with 0 exactly when the selected driver ran and
   returned success, with 2 exactly when the driver ran and returned failure
   (then nothing is printed on stdout), and with 1 on a usage or bus-setup
   error, in which case no driver transaction was issued. *)
C4_ExitCodes ==
    (pc = "exited") =>
        /\ exit_status \in {0, 1, 2}
        /\ (exit_status = 0) <=> (DriverCalled /\ res > 0)
        /\ (exit_status = 2) <=> (DriverCalled /\ res <= 0)
        /\ (exit_status = 2) => out = <<>>
        /\ (exit_status = 1) <=> ~DriverCalled
        /\ (exit_status = 1) => out = <<>>
        /\ (\E i \in DOMAIN errout :
              errout[i] \in {"Error: Unsupported option",
                             "Error: Could not open file",
                             "Error: Could not set address"})
           => (exit_status = 1 /\ ~DriverCalled)

C4_Witness ==
    /\ pc = "exited"
    /\ exit_status = 2
    /\ DriversRun = {"read_sht30"}
    /\ nread < 0

(* the leading arguments that main consumes as flags *)
FlagPrefix == { i \in 1..Len(argv) : \A j \in 1..i : argv[j] # "file" }

ChipFlags == { i \in FlagPrefix : argv[i] \in {"-2", "-3"} }

LastChipFlag == CHOOSE i \in ChipFlags : \A j \in ChipFlags : j <= i

(* the chip the command line asks for: its driver and its bus address *)
SelectedDriver ==
    IF ChipFlags = {} THEN "read_mcp9801"
    ELSE IF argv[LastChipFlag] = "-2" THEN "read_aht10" ELSE "read_sht30"

SelectedAddr ==
    IF ChipFlags = {} THEN 79
    ELSE IF argv[LastChipFlag] = "-2" THEN 56 ELSE 68

BoundAddrs == { log[i][3] : i \in { j \in DOMAIN log :
                                      log[j][2] = "ioctl I2C_SLAVE" } }

(* C5: once bus setup succeeded exactly one driver executes; it is the driver
   of the chip selected on the command line (MCP9801 by default, else the
   last of -2 / -3), the address bound is that chip's address, and no
   transaction of another driver is ever issued. *)
C5_ExclusiveSelection ==
    /\ DriversRun \subseteq {SelectedDriver}
    /\ BoundAddrs \subseteq {SelectedAddr}
    /\ (pc \in {"mcp_cfg", "mcp_fix", "mcp_temp", "mcp_decode"})
           => SelectedDriver = "read_mcp9801"
    /\ (pc \in {"aht_calibrate", "busy_wait", "bw_return", "aht_calcheck",
                "aht_trigger", "aht_block", "aht_decode"})
           => SelectedDriver = "read_aht10"
    /\ (pc \in {"sht_measure", "sht_block", "sht_decode"})
           => SelectedDriver = "read_sht30"
    /\ (pc = "returned" \/ (pc = "exited" /\ exit_status # 1))
           => (DriversRun = {SelectedDriver} /\ BoundAddrs = {SelectedAddr})

C5_Witness ==
    /\ argv = <<"-2", "-3">>
    /\ pc = "exited"
    /\ DriversRun = {"read_sht30"}
    /\ BoundAddrs = {68}

(* the error kind named by a driver diagnostic *)
ErrorKind(msg) ==
    CASE msg = "Error: Config reg read failed" -> "RegisterReadError"
      [] msg = "Error: Temperature reg read failed" -> "RegisterReadError"
      [] msg = "Error: calibrate busy timeout" -> "CalibrateTimeoutError"
      [] msg = "Error: calibration failed" -> "CalibrationFailedError"
      [] msg = "Error: send trigger cmd failed" -> "TriggerSendError"
      [] msg = "Error: trigger busy timeout" -> "TriggerTimeoutError"
      [] msg = "Error: reading values failed" -> "BlockReadError"
      [] msg = "Error: send measure cmd failed" -> "MeasureSendError"
      [] OTHER -> "none"

(* a decoding of the value the caller receives into an error kind; -1 is
   the value of the first failure of the source, a register read error *)
KindOfValue(v) == IF v = -1 THEN "RegisterReadError" ELSE "other"

DriverFailed == pc = "returned" /\ res <= 0

(* C6 as claimed: the value the caller receives for a driver error tells the
   error kinds apart, so the value received for a register read error is not
   received for an error of another kind. *)
C6_ErrorKindInValue ==
    DriverFailed => ErrorKind(errout[Len(errout)]) = KindOfValue(res)

LastLog == log[Len(log)]

(* the diagnostic of the step that failed, read off the last transaction *)
FailedStepDiag ==
    CASE LastLog[2] = "i2c_smbus_read_byte_data" ->
             "Error: Config reg read failed"
      [] LastLog[2] = "i2c_smbus_read_word_data" ->
             "Error: Temperature reg read failed"
      [] LastLog[2] = "usleep" /\ site = "cal" ->
             "Error: calibrate busy timeout"
      [] LastLog[2] = "usleep" /\ site = "trig" ->
             "Error: trigger busy timeout"
      [] LastLog[2] = "i2c_smbus_read_byte" -> "Error: calibration failed"
      [] LastLog[2] = "i2c_smbus_write_i2c_block_data" ->
             "Error: send trigger cmd failed"
      [] LastLog[2] = "i2c_smbus_read_i2c_block_data" ->
             "Error: reading values failed"
      [] LastLog[2] = "i2c_smbus_write_byte_data" ->
             "Error: send measure cmd failed"
      [] OTHER -> "none"

(* C6 as amended: every failing driver path returns the one value -1,
   whatever the step that failed; the failing step is named only by the
   single diagnostic the driver wrote to stderr. *)
C6_GenericValueSpecificDiag ==
    DriverFailed =>
        /\ res = -1
        /\ Len(errout) = 1
        /\ errout[1] = FailedStepDiag
        /\ ErrorKind(errout[1]) # "none"

C6_Witness ==
    /\ DriverFailed
    /\ res = -1
    /\ errout = <<"Error: trigger busy timeout">>

Occurrences(e) == Cardinality({ i \in DOMAIN log : log[i] = e })

StatusProbes ==
    Cardinality({ i \in DOMAIN log : log[i][2] = "i2c_smbus_read_byte" })

(* C7: every protocol command and every block or register read is issued at
   most once in an invocation; only the status probe repeats, and it is
   bounded by the two busy-waits and the calibration check. *)
C7_NoProtocolRetry ==
    /\ \A i \in DOMAIN log :
         log[i][2] \notin {"i2c_smbus_read_byte", "usleep"}
            => Occurrences(log[i]) = 1
    /\ StatusProbes <= 2 * (BUSY_WAIT_RETRIES + 1) + 1

C7_Witness ==
    /\ pc = "returned"
    /\ site = "cal"
    /\ bw_ret = -1
    /\ StatusProbes = BUSY_WAIT_RETRIES + 1
    /\ Occurrences(<<"read_aht10", "i2c_smbus_write_i2c_block_data",
                     AHTX0_CMD_CALIBRATE>>) = 1


CalibrateEntry ==
    <<"read_aht10", "i2c_smbus_write_i2c_block_data", AHTX0_CMD_CALIBRATE>>

TriggerEntry ==
    <<"read_aht10", "i2c_smbus_write_i2c_block_data", AHTX0_CMD_TRIGGER>>

AhtBlockEntry == <<"read_aht10", "i2c_smbus_read_i2c_block_data", 0>>

InLog(e) == \E i \in DOMAIN log : log[i] = e

(* the step appends the transaction e to the log *)
Issued(e) == \E i \in (Len(log) + 1)..Len(log') : log'[i] = e

(* C8: read_aht10 sends the trigger command only after the calibrate command
   was issued, the calibrate busy-wait returned 0 and the calibrated check
   passed; it issues the block read only after the trigger command succeeded
   and the trigger busy-wait returned 0; it decodes only after the block read
   succeeded; a busy-wait that returned -1 ends the acquisition with -1 and
   no further transaction. *)
C8_Aht10StepOrder ==
    [][ /\ Issued(TriggerEntry) =>
             /\ InLog(CalibrateEntry)
             /\ site = "cal" /\ bw_ret = 0
             /\ LastLog = <<"read_aht10", "i2c_smbus_read_byte", 0>>
             /\ BitAnd(getStatus(rd), AHTX0_STATUS_CALIBRATED) # 0
        /\ Issued(AhtBlockEntry) =>
             /\ InLog(TriggerEntry)
             /\ wres >= 0
             /\ site = "trig" /\ bw_ret = 0
        /\ (DriversRun = {"read_aht10"} /\ ~humi_set /\ humi_set') =>
             /\ LastLog = AhtBlockEntry
             /\ nread >= 0
        /\ (pc = "bw_return" /\ bw_ret < 0) =>
             (pc' = "returned" /\ res' = -1 /\ log' = log)
      ]_vars

C8_Witness ==
    /\ pc = "returned"
    /\ res = 3
    /\ DriversRun = {"read_aht10"}
    /\ InLog(TriggerEntry)
    /\ nbusy > 0

(* the status byte the device delivered has the calibrated flag set *)
DeviceCalibrated(r) == r >= 0 /\ BitAnd(r, AHTX0_STATUS_CALIBRATED) # 0

(* C9: whatever the status read after the calibrate busy-wait returns (a
   status byte or a transport failure), read_aht10 goes on to the trigger
   command only if the device status has the calibrated flag 0x08 set;
   otherwise it fails with the calibration-failed diagnostic. *)
C9_CalibratedFlagRequired ==
    /\ (pc = "aht_trigger") => DeviceCalibrated(rd)
    /\ (DriverFailed /\ errout = <<"Error: calibration failed">>)
           => ~DeviceCalibrated(rd)

(* C10: for AHT10 and SHT30 a block read that failed or delivered fewer than
   6 bytes never reaches the decoder; the acquisition fails with the
   block-read diagnostic instead of producing a reading. *)
C10_BlockLengthChecked ==
    /\ (pc \in {"aht_decode", "sht_decode"}) => nread = 6
    /\ (pc = "returned" /\ res > 0 /\ DriversRun # {"read_mcp9801"})
           => nread = 6
    /\ (pc = "returned" /\ nread < 6
        /\ \E i \in DOMAIN log : log[i][2] = "i2c_smbus_read_i2c_block_data")
           => (res = -1 /\ errout = <<"Error: reading values failed">>)


----------------------------------------------------------------------------
(* Properties of read_aht10 in both builds, checked under SpecAht10 *)

(* C11: in the lenient build a transport failure of the calibrate command
   does not fail the acquisition: the driver enters the calibrate busy-wait
   and writes no diagnostic; only in the strict build does that failure end
   the acquisition with the calibrate-send diagnostic, before any status
   probe.  A successful calibrate command always leads to the busy-wait. *)
C11_CalibrateSendPolicy ==
    [][ (pc = "aht_calibrate") =>
          IF wres' < 0 /\ exit_on_fail
          THEN /\ pc' = "returned"
               /\ res' = -1
               /\ errout' = <<"Error: send calibrate cmd failed">>
               /\ log' = <<CalibrateEntry>>
          ELSE /\ pc' = "busy_wait"
               /\ site' = "cal"
               /\ max_retries' = BUSY_WAIT_RETRIES
               /\ loop_delay_ms' = TOUT_10_MS
               /\ errout' = <<>>
      ]_vars

(* the lenient build polls the status although the calibrate command failed *)
C11_Witness ==
    /\ ~exit_on_fail
    /\ wres < 0
    /\ pc = "busy_wait"
    /\ site = "cal"
    /\ nprobe > 0
    /\ log[1] = CalibrateEntry
    /\ errout = <<>>


----------------------------------------------------------------------------
(* Properties of the decoders, checked under SpecDecode *)

Decoded(fn) == pc = "returned" /\ readsensorfn = fn

(* bytes 1 to 5 of the block that packs the 20-bit values h and t *)
Aht10Encode(h, t) ==
    << h \div 4096,
       (h \div 16) % 256,
       (h % 16) * 16 + (t \div 65536),
       (t \div 256) % 256,
       t % 256 >>

(* C12: for every 6-byte block the AHT10 humidity and temperature raw values
   are 20-bit values, re-encoding them reproduces bytes 1 to 5 of the block
   exactly, and byte 0 influences neither value. *)
C12_Aht10RoundTrip ==
    Decoded("read_aht10") =>
        /\ humi \in 0..(2^20 - 1)
        /\ temp \in 0..(2^20 - 1)
        /\ Aht10Encode(humi, temp) =
             <<data[2], data[3], data[4], data[5], data[6]>>
        /\ \A x \in ByteVals :
             /\ Aht10Humi([data EXCEPT ![1] = x]) = humi
             /\ Aht10Temp([data EXCEPT ![1] = x]) = temp

C12_Witness ==
    /\ Decoded("read_aht10")
    /\ data = <<0, 255, 240, 92, 15, 16>>
    /\ humi = 1048325
    /\ temp = 790288

(* C13 as claimed: the word 0x1900 decodes to 25.0 degrees, 400 sixteenths. *)
C13_Word1900Is25 ==
    (Decoded("read_mcp9801") /\ mcp_res = 6400) => temp = 400

(* C13 as amended: the word 0x1900 decodes to 0.0625 degrees (integer part 0
   from the low byte 0x00, fractional nibble 1), 1 sixteenth; 25.0 degrees,
   400 sixteenths, is the decode of the word 0x0019. *)
C13_Word1900Decode ==
    Decoded("read_mcp9801") =>
        /\ (mcp_res = 6400) => temp = 1
        /\ (mcp_res = 25) => temp = 400

C13_Witness ==
    /\ Decoded("read_mcp9801")
    /\ mcp_res = 6400
    /\ temp_set
    /\ temp = 1

(* the word w with its bits 8 to 11 replaced by k *)
WithBits8to11(w, k) == (w \div 4096) * 4096 + k * 256 + (w % 256)

(* C14: for every 16-bit word w the temperature in sixteenths of a degree is
   16 * (w mod 256) + (w div 4096); it is never negative (no sign extension)
   and does not depend on bits 8 to 11; 0x1980 gives 128.0625 = 2049/16. *)
C14_Mcp9801DecodeFormula ==
    Decoded("read_mcp9801") =>
        /\ temp = 16 * (mcp_res % 256) + (mcp_res \div 4096)
        /\ temp >= 0
        /\ \A k \in 0..15 : Mcp9801Decode(WithBits8to11(mcp_res, k)) = temp
        /\ (mcp_res = 6528) => temp = 2049

C14_Witness ==
    /\ Decoded("read_mcp9801")
    /\ mcp_res = 61567
    /\ temp = 2047


----------------------------------------------------------------------------
(* Blocking time of the AHT10 poll sites, checked under SpecAht10 *)

(* number of suspends of ms milliseconds read_aht10 has made *)
Sleeps(ms) ==
    Cardinality({ i \in DOMAIN log : log[i] = <<"read_aht10", "usleep", ms>> })

(* C15 as claimed: a busy-wait suspends at most max_retries times, so an
   AHT10 acquisition suspends at most 20 * 10 ms in the calibrate poll and
   20 * 20 ms in the trigger poll. *)
C15_SuspendsAtMostMaxRetries ==
    /\ nbusy <= max_retries
    /\ Sleeps(TOUT_10_MS) * TOUT_10_MS <= BUSY_WAIT_RETRIES * TOUT_10_MS
    /\ Sleeps(TOUT_20_MS) * TOUT_20_MS <= BUSY_WAIT_RETRIES * TOUT_20_MS

(* C15 as amended: each busy-wait of an AHT10 acquisition (max_retries = 20)
   suspends once per busy probe, at most max_retries + 1 = 21 times, for its
   delay each: at most 21 * 10 = 210 ms in the calibrate poll and
   21 * 20 = 420 ms in the trigger poll. *)
C15_SuspendsAtMostMaxRetriesPlusOne ==
    /\ max_retries = BUSY_WAIT_RETRIES
    /\ nbusy <= max_retries + 1
    /\ (site = "cal") => (Sleeps(TOUT_10_MS) = nbusy /\ Sleeps(TOUT_20_MS) = 0)
    /\ (site = "trig") => Sleeps(TOUT_20_MS) = nbusy
    /\ Sleeps(TOUT_10_MS) * TOUT_10_MS <= 210
    /\ Sleeps(TOUT_20_MS) * TOUT_20_MS <= 420

C15_Witness ==
    /\ pc = "returned"
    /\ site = "trig"
    /\ bw_ret = -1
    /\ Sleeps(TOUT_20_MS) = BUSY_WAIT_RETRIES + 1


----------------------------------------------------------------------------
(* Output of a successful invocation, checked under Spec *)

(* the bare-format flags given on the command line *)
BareFlags == { argv[i] : i \in FlagPrefix } \cap {"-b", "-r"}

TempLines == { i \in DOMAIN out : out[i][1] \in {"%.2f", "Temp=%.2f%s"} }

HumiLines == { i \in DOMAIN out : out[i][1] \in {"%.1f", "Humi=%.1f%%"} }

(* C16: on a successful acquisition, for every combination of -b and -r, a
   temperature line is printed only if the Temperature capability was
   reported and a humidity line only if the Humidity capability was
   reported; a bare request for a quantity the sensor lacks is served with
   the supported one; at least one value line is printed. *)
C16_OutputRespectsCapability ==
    (pc = "exited" /\ exit_status = 0) =>
        /\ (TempLines # {}) => (BitAnd(res, 1) # 0 /\ temp_set)
        /\ (HumiLines # {}) => (BitAnd(res, 2) # 0 /\ humi_set)
        /\ \A i \in TempLines : out[i][2] = temp
        /\ \A i \in HumiLines : out[i][2] = humi
        /\ Len(out) >= 1
        /\ (res = 1 /\ BareFlags # {}) => out = << <<"%.2f", temp>> >>
        /\ (res = 3 /\ BareFlags = {"-b"}) => out = << <<"%.2f", temp>> >>
        /\ (res = 3 /\ BareFlags = {"-r"}) => out = << <<"%.1f", humi>> >>
        /\ (res = 3 /\ BareFlags = {"-b", "-r"})
               => out = << <<"%.2f", temp>>, <<"%.1f", humi>> >>
        /\ (res = 1 /\ BareFlags = {}) => out = << <<"Temp=%.2f%s", temp>> >>
        /\ (res = 3 /\ BareFlags = {})
               => out = << <<"Temp=%.2f%s", temp>>, <<"Humi=%.1f%%", humi>> >>

C16_Witness ==
    /\ pc = "exited"
    /\ exit_status = 0
    /\ argv = <<"-r">>
    /\ DriversRun = {"read_mcp9801"}
    /\ ~humi_set
    /\ out = << <<"%.2f", temp>> >>


----------------------------------------------------------------------------
(* Failure handling of the drivers, checked under Spec *)

CfgReadEntry == <<"read_mcp9801", "i2c_smbus_read_byte_data", MCP9801_CFG_REG>>

CfgWriteEntry ==
    <<"read_mcp9801", "i2c_smbus_write_byte_data", MCP9801_CFG_REG>>

SettleEntry == <<"read_mcp9801", "usleep", MCP9801_CONV_TOUT_MS>>

TempReadEntry ==
    <<"read_mcp9801", "i2c_smbus_read_word_data", MCP9801_TEMPER_REG>>

ProbeEntry == <<"read_aht10", "i2c_smbus_read_byte", 0>>

MeasureEntry ==
    <<"read_sht30", "i2c_smbus_write_byte_data", SHT30_CMD_MEAS_HREP_MSB>>

ShtSettleEntry == <<"read_sht30", "usleep", TOUT_20_MS>>

ShtBlockEntry == <<"read_sht30", "i2c_smbus_read_i2c_block_data", 0>>

CloseEntry == <<"main", "close", 0>>

(* C17: in every driver the first fatal step failure (config or temperature
   register read failure, busy-wait timeout, failed calibration check,
   failed trigger or measure command, failed block read) makes the driver
   return -1 at once, and after that no bus read, write or status probe is
   issued: main only closes the bus and exits. *)
C17_ErrorsAreTerminal ==
    [][ /\ ((Issued(CfgReadEntry) \/ Issued(TempReadEntry)) /\ mcp_res' < 0)
              => DriverFailed'
        /\ (pc = "bw_return" /\ bw_ret < 0) => (DriverFailed' /\ log' = log)
        /\ (pc = "aht_calcheck" /\ Issued(ProbeEntry)
            /\ BitAnd(getStatus(rd'), AHTX0_STATUS_CALIBRATED) = 0)
              => DriverFailed'
        /\ ((Issued(TriggerEntry) \/ Issued(MeasureEntry)) /\ wres' < 0)
              => DriverFailed'
        /\ ((Issued(AhtBlockEntry) \/ Issued(ShtBlockEntry)) /\ nread' < 0)
              => DriverFailed'
        /\ DriverFailed =>
              (pc' = "exited" /\ exit_status' = 2
               /\ log' = Append(log, CloseEntry))
        /\ (pc = "exited") => log' = log
      ]_vars

C17_Witness ==
    /\ pc = "exited"
    /\ exit_status = 2
    /\ nread < 0
    /\ Len(log) >= 3
    /\ log[Len(log) - 1] = AhtBlockEntry
    /\ log[Len(log)] = CloseEntry

(* the transactions of the driver fn, in the order they were issued *)
LogOf(fn) == SelectSeq(log, LAMBDA e : e[1] = fn)

(* C18: read_mcp9801 writes the configuration register and suspends for the
   settle time exactly when the configuration read succeeded with a value
   other than 0x60, the suspend following the write and preceding the
   temperature word read; with the value 0x60 it reads the temperature word
   directly; when the configuration read fails it issues neither the write
   nor the temperature read. *)
C18_McpConfigFixup ==
    [][ /\ (pc = "mcp_cfg") =>
              /\ log' = Append(log, CfgReadEntry)
              /\ IF mcp_res' < 0
                 THEN DriverFailed'
                 ELSE (mcp_res' # MCP9801_CFG_VALUE => pc' = "mcp_fix")
                      /\ (mcp_res' = MCP9801_CFG_VALUE => pc' = "mcp_temp")
        /\ (pc = "mcp_fix") =>
              /\ mcp_res >= 0 /\ mcp_res # MCP9801_CFG_VALUE
              /\ log' = log \o <<CfgWriteEntry, SettleEntry>>
              /\ pc' = "mcp_temp"
        /\ (pc = "mcp_temp") =>
              /\ mcp_res >= 0
              /\ log' = Append(log, TempReadEntry)
              /\ LogOf("read_mcp9801") =
                    IF mcp_res # MCP9801_CFG_VALUE
                    THEN <<CfgReadEntry, CfgWriteEntry, SettleEntry>>
                    ELSE <<CfgReadEntry>>
        /\ (Issued(CfgWriteEntry) \/ Issued(SettleEntry)) => pc = "mcp_fix"
        /\ Issued(TempReadEntry) => pc = "mcp_temp"
      ]_vars

C18_Witness ==
    /\ pc = "returned"
    /\ res = Mcp9801Ret
    /\ LogOf("read_mcp9801") =
          <<CfgReadEntry, CfgWriteEntry, SettleEntry, TempReadEntry>>

(* C19: a successful read_sht30 issued exactly the measure command write,
   then the 20 ms suspend, then the block read of 6 bytes, and nothing else;
   read_sht30 never reads the status byte; the values it stored are those of
   bytes 0, 1, 3 and 4 of the block, whatever bytes 2 and 5 hold. *)
C19_Sht30ProtocolShape ==
    /\ \A i \in DOMAIN log :
          log[i][1] = "read_sht30" => log[i][2] # "i2c_smbus_read_byte"
    /\ (pc = "returned" /\ res > 0 /\ readsensorfn = "read_sht30") =>
          /\ LogOf("read_sht30") =
                <<MeasureEntry, ShtSettleEntry, ShtBlockEntry>>
          /\ \A x, y \in ByteVals :
                /\ temp = Sht30Temp([data EXCEPT ![3] = x, ![6] = y])
                /\ humi = Sht30Humi([data EXCEPT ![3] = x, ![6] = y])
          /\ temp = Byte(data, 0) * 256 + Byte(data, 1)
          /\ humi = Byte(data, 3) * 256 + Byte(data, 4)

C19_Witness ==
    /\ pc = "returned"
    /\ res = Sht30Ret
    /\ readsensorfn = "read_sht30"
    /\ nread = 6
    /\ temp = 28 * 256 + 102
    /\ humi = 92 * 256 + 99

----------------------------------------------------------------------------
(* Termination of busy_wait_limited, checked under SpecPoll *)

(* C20: for every max_retries in 0..255 and every sequence of status bytes,
   busy_wait_limited has returned once max_retries + 1 status probes were
   made, and never makes more. *)
C20_PollTerminates ==
    /\ nprobe <= max_retries + 1
    /\ (nprobe = max_retries + 1) => Returned


----------------------------------------------------------------------------
(* Resolution setting behind an MCP9801 reading, checked under Spec *)

(* C21: when read_mcp9801 has returned success, either the configuration
   register read returned 0x60, so no configuration write was issued, or
   the configuration write of 0x60 was issued and succeeded; a failed
   configuration write is never followed by a successful reading. *)
C21_ReadingInRequiredResolution ==
    (pc = "returned" /\ readsensorfn = "read_mcp9801" /\ res > 0) =>
        \/ LogOf("read_mcp9801") = <<CfgReadEntry, TempReadEntry>>
        \/ /\ LogOf("read_mcp9801") =
                 <<CfgReadEntry, CfgWriteEntry, SettleEntry, TempReadEntry>>
           /\ wres >= 0

====
